---- MODULE Spec2Model ----
(***************************************************************************)
(* Model of the LLM evaluation CLI (src/main.py), its provider adapters    *)
(* (src/providers) and its logger (src/utils/logger.py).                   *)
(*                                                                         *)
(* Python values are encoded as follows.  An Optional value is a sequence  *)
(* of length at most one: None is <<>> and a present value v is <<v>>.     *)
(* A response text is the sequence of its lexical tokens (a punctuation    *)
(* character, a quoted string, a number, a word, a run of white space), so *)
(* that json.loads scans it; the empty text is <<>>.  Error messages are   *)
(* strings.                                                                *)
(* A model identifier is the sequence of its dot-separated segments, so    *)
(* that str.startswith on the dotted prefixes and the lexicographic string *)
(* order are computed on it and not looked up.  Times are whole            *)
(* milliseconds.                                                           *)
(***************************************************************************)
EXTENDS Integers, Sequences, FiniteSets, TLC

VARIABLES pc, selected, use_parallel, quiet, google_env, prompt, providers,
          run_id, tasks, responses, summary, log, exit_code

vars == <<pc, selected, use_parallel, quiet, google_env, prompt, providers,
          run_id, tasks, responses, summary, log, exit_code>>

(***************************************************************************)
(* Bounds and inputs of the model.                                         *)
(***************************************************************************)
MaxAdapters == 3

None == <<>>
Some(v) == <<v>>

Prompts == {"Say hi"}
RunIds == {"uuid-1"}

\* The model registry read from config.yaml: key, provider kind, model
\* identifier and options of every entry.
models_cfg ==
  [ flash    |-> [provider |-> "google_cloud", model_id |-> <<"gemini-flash">>,
                  options |-> [enable_thinking |-> FALSE, response_format |-> None]],
    thinking |-> [provider |-> "google_cloud", model_id |-> <<"gemini-flash">>,
                  options |-> [enable_thinking |-> TRUE, response_format |-> None]],
    pro      |-> [provider |-> "google_cloud", model_id |-> <<"gemini-pro">>,
                  options |-> [enable_thinking |-> FALSE, response_format |-> None]],
    haiku    |-> [provider |-> "aws_bedrock", model_id |-> <<"us", "anthropic", "claude-haiku">>,
                  options |-> [enable_thinking |-> TRUE, response_format |-> Some("json")]],
    nova     |-> [provider |-> "aws_bedrock", model_id |-> <<"amazon", "nova-lite">>,
                  options |-> [enable_thinking |-> FALSE, response_format |-> None]],
    gpt      |-> [provider |-> "azure", model_id |-> <<"gpt">>,
                  options |-> [enable_thinking |-> FALSE, response_format |-> None]] ]

ModelKeys == DOMAIN models_cfg

\* The words model identifiers are made of, in ascending string order.
Alphabet == <<"amazon", "anthropic", "claude-haiku", "gemini-flash", "gemini-pro",
              "gpt", "nova-lite", "us">>


(***************************************************************************)
(* Python helpers: truthiness, string order, the outcome of a call.        *)
(***************************************************************************)
\* bool(x) of an Optional string: None and "" are false.
Truthy(opt) == opt # None /\ opt # Some("")

\* `opt or 0` for an Optional integer.
OrZero(opt) == IF opt = None \/ opt = Some(0) THEN 0 ELSE opt[1]

\* A call either returns a value or raises; an exception is its message.
Ret(v) == [exc |-> None, result |-> Some(v)]
Raise(msg) == [exc |-> Some(msg), result |-> None]

WordRank(w) == CHOOSE i \in 1..Len(Alphabet) : Alphabet[i] = w

\* a < b on two strings
RECURSIVE StrLess(_, _)
StrLess(a, b) ==
  IF a = <<>> THEN b # <<>>
  ELSE IF b = <<>> THEN FALSE
  ELSE IF Head(a) = Head(b) THEN StrLess(Tail(a), Tail(b))
  ELSE WordRank(Head(a)) < WordRank(Head(b))

\* s.startswith(p) for a prefix p that ends with a dot
startswith(s, p) == Len(p) < Len(s) /\ SubSeq(s, 1, Len(p)) = p

\* bool(x) of an Optional text: None and the empty text are false.
TruthyText(opt) == opt # None /\ opt # Some(<<>>)

\* "\n".join(parts)
RECURSIVE join(_)
join(parts) ==
  IF parts = <<>> THEN <<>>
  ELSE IF Len(parts) = 1 THEN parts[1]
  ELSE parts[1] \o <<"\n">> \o join(Tail(parts))

(***************************************************************************)
(* providers/base.py: the Result record.                                   *)
(***************************************************************************)
LLMResponseFields ==
  {"model", "provider", "prompt", "response", "input_tokens", "output_tokens",
   "thinking_tokens", "latency_ms", "error", "raw_usage"}

LLMResponseDefaults == {"error", "raw_usage"}

\* {} : the dict without keys
EmptyDict == [k \in {} |-> None]

TypeErrorMsg == "LLMResponse.__init__() got an unexpected keyword argument"

\* The dataclass constructor called with the keyword arguments kw: it raises
\* TypeError on a keyword that is no field and on a missing required field.
LLMResponse(kw) ==
  IF DOMAIN kw \subseteq LLMResponseFields
     /\ (LLMResponseFields \ LLMResponseDefaults) \subseteq DOMAIN kw
  THEN Ret([model           |-> kw.model,
            provider        |-> kw.provider,
            prompt          |-> kw.prompt,
            response        |-> kw.response,
            input_tokens    |-> kw.input_tokens,
            output_tokens   |-> kw.output_tokens,
            thinking_tokens |-> kw.thinking_tokens,
            latency_ms      |-> kw.latency_ms,
            error           |-> IF "error" \in DOMAIN kw THEN kw.error ELSE None,
            raw_usage       |-> IF "raw_usage" \in DOMAIN kw THEN kw.raw_usage ELSE EmptyDict])
  ELSE Raise(TypeErrorMsg)

(***************************************************************************)
(* providers/google_cloud.py                                               *)
(***************************************************************************)
\* What generate_content can do: raise, or return a response whose text and
\* usage_metadata (and each count in it) may be None.
GoogleOutcomes ==
  { [raises |-> Some(""), text |-> None, usage |-> None, ms |-> 0],
    [raises |-> Some("429 quota exceeded"), text |-> None, usage |-> None, ms |-> 0],
    [raises |-> None, text |-> Some(<<"hello">>), ms |-> 7,
     usage |-> Some([prompt_token_count |-> Some(3), candidates_token_count |-> Some(2),
                     thoughts_token_count |-> None, total_token_count |-> Some(5)])],
    [raises |-> None, text |-> Some(<<"{", "\"a\"", ":", " ", "1", "}">>), ms |-> 9,
     usage |-> Some([prompt_token_count |-> Some(3), candidates_token_count |-> Some(2),
                     thoughts_token_count |-> Some(4), total_token_count |-> Some(9)])],
    [raises |-> None, text |-> None, usage |-> None, ms |-> 5] }

\* getattr(usage, name, default)
getattr(usage, name, default) == IF usage = None THEN default ELSE usage[1][name]

\* GoogleFailureKw with the message also put in the response text.
GoogleFailureKwEcho(self, p, e) ==
  [model |-> self.model_id, provider |-> "google_cloud", prompt |-> p,
   response |-> Some(<<e>>), input_tokens |-> 0, output_tokens |-> 0,
   thinking_tokens |-> None, latency_ms |-> 0, error |-> Some(e)]

\* The keyword arguments of the Result built on the failure path: str(e) is
\* the error, everything else is at its failure default.
GoogleFailureKw(self, p, e) ==
  [model |-> self.model_id, provider |-> "google_cloud", prompt |-> p,
   response |-> Some(<<>>), input_tokens |-> 0, output_tokens |-> 0,
   thinking_tokens |-> None, latency_ms |-> 0, error |-> Some(e)]

GoogleSuccessKw(self, p, out) ==
  LET usage           == out.usage
      input_tokens    == OrZero(getattr(usage, "prompt_token_count", Some(0)))
      output_tokens   == OrZero(getattr(usage, "candidates_token_count", Some(0)))
      thinking_tokens == getattr(usage, "thoughts_token_count", None)
  IN [model |-> self.model_id, provider |-> "google_cloud", prompt |-> p,
      response |-> out.text,
      input_tokens |-> input_tokens, output_tokens |-> output_tokens,
      thinking_tokens |-> thinking_tokens, latency_ms |-> out.ms,
      raw_usage |-> [prompt_token_count |-> input_tokens,
                     candidates_token_count |-> output_tokens,
                     thoughts_token_count |-> thinking_tokens,
                     total_token_count |-> getattr(usage, "total_token_count", None)]]

\* GoogleCloudProvider.run: the try block and its except handler.
GoogleRun(self, p, out) ==
  LET body == IF out.raises # None THEN Raise(out.raises[1])
              ELSE LLMResponse(GoogleSuccessKw(self, p, out))
  IN IF body.exc = None THEN body
     ELSE LLMResponse(GoogleFailureKw(self, p, body.exc[1]))


(***************************************************************************)
(* providers/aws_bedrock.py                                                *)
(***************************************************************************)
ANTHROPIC_PREFIXES ==
  {<<"anthropic">>, <<"jp", "anthropic">>, <<"us", "anthropic">>,
   <<"eu", "anthropic">>, <<"ap", "anthropic">>}

AMAZON_PREFIXES ==
  {<<"amazon">>, <<"jp", "amazon">>, <<"us", "amazon">>,
   <<"eu", "amazon">>, <<"ap", "amazon">>}

_is_anthropic_model(self) == \E p \in ANTHROPIC_PREFIXES : startswith(self.model_id, p)

_is_amazon_model(self) == \E p \in AMAZON_PREFIXES : startswith(self.model_id, p)

\* json.dumps of the tool inputs the backends of the model return
json_dumps(d) ==
  IF d = [a |-> 1] THEN <<"{", "\"a\"", ":", " ", "1", "}">> ELSE <<"{", "}">>

\* What invoke_model can do: raise, or return a body with a usage dict (a
\* missing key is None) and content blocks (a missing "input" is None).
AnthropicOutcomes ==
  { [raises |-> Some(""), usage |-> None, content |-> <<>>, ms |-> 0],
    [raises |-> Some("AccessDeniedException"), usage |-> None, content |-> <<>>, ms |-> 0],
    [raises |-> None, ms |-> 8,
     usage |-> Some([input_tokens |-> Some(3), output_tokens |-> Some(2)]),
     content |-> << [type |-> "thinking", thinking |-> <<"let", "me", "think">>,
                     text |-> <<>>, name |-> "", input |-> None],
                    [type |-> "text", thinking |-> <<>>, text |-> <<"hello">>,
                     name |-> "", input |-> None] >>],
    [raises |-> None, ms |-> 6,
     usage |-> None,
     content |-> << [type |-> "tool_use", thinking |-> <<>>, text |-> <<>>,
                     name |-> "json_output", input |-> Some([a |-> 1])] >>],
    [raises |-> None, ms |-> 6,
     usage |-> Some([input_tokens |-> Some(3), output_tokens |-> Some(2)]),
     content |-> << [type |-> "tool_use", thinking |-> <<>>, text |-> <<>>,
                     name |-> "json_output", input |-> None] >>] }

\* usage.get(name, 0)
usage_get(usage, name) ==
  IF usage = None \/ usage[1][name] = None THEN 0 ELSE usage[1][name][1]

\* The loop over the content blocks: the thinking token count, None until a
\* thinking block is met and then the running sum of the words of the blocks.
RECURSIVE AnthropicThinking(_, _)
AnthropicThinking(content, acc) ==
  IF content = <<>> THEN acc
  ELSE AnthropicThinking(Tail(content),
         IF Head(content).type = "thinking"
         THEN Some(OrZero(acc) + Len(Head(content).thinking))
         ELSE acc)

\* The loop over the content blocks: the text parts.  block["input"] raises
\* KeyError on a tool_use block without input.
RECURSIVE AnthropicParts(_, _)
AnthropicParts(content, acc) ==
  IF content = <<>> THEN Ret(acc)
  ELSE LET block == Head(content)
       IN IF block.type = "thinking" THEN AnthropicParts(Tail(content), acc)
          ELSE IF block.type = "text"
          THEN AnthropicParts(Tail(content), Append(acc, block.text))
          ELSE IF block.type = "tool_use" /\ block.name = "json_output"
          THEN IF block.input = None THEN Raise("'input'")
               ELSE AnthropicParts(Tail(content), Append(acc, json_dumps(block.input[1])))
          ELSE AnthropicParts(Tail(content), acc)

\* The keyword arguments both Bedrock paths pass on failure.
BedrockFailureKw(self, p, e) ==
  [model |-> self.model_id, provider |-> "aws_bedrock", prompt |-> p,
   response |-> Some(<<>>), input_tokens |-> 0, output_tokens |-> 0,
   thinking_tokens |-> None, latency_ms |-> 0, error |-> Some(e),
   response_format |-> self.config.response_format]

\* AWSBedrockProvider._run_anthropic: the try block and its except handler.
\* The keyword arguments of the Result built in the try block, when the
\* parsing of the body reaches it.
AnthropicSuccessKw(self, p, out) ==
  LET parts == AnthropicParts(out.content, <<>>)
      input_tokens  == usage_get(out.usage, "input_tokens")
      output_tokens == usage_get(out.usage, "output_tokens")
  IN IF parts.exc # None THEN parts
     ELSE Ret([model |-> self.model_id, provider |-> "aws_bedrock", prompt |-> p,
               response |-> Some(join(parts.result[1])),
               input_tokens |-> input_tokens, output_tokens |-> output_tokens,
               thinking_tokens |-> AnthropicThinking(out.content, None),
               latency_ms |-> out.ms,
               raw_usage |-> [input_tokens |-> input_tokens,
                              output_tokens |-> output_tokens],
               response_format |-> self.config.response_format])

_run_anthropic(self, p, out) ==
  LET kw == AnthropicSuccessKw(self, p, out)
      body ==
        IF out.raises # None THEN Raise(out.raises[1])
        ELSE IF kw.exc # None THEN kw
        ELSE LLMResponse(kw.result[1])
  IN IF body.exc = None THEN body
     ELSE LLMResponse(BedrockFailureKw(self, p, body.exc[1]))

\* What converse can do: raise, or return a usage dict (a missing key is
\* None) and the content blocks of the output message.
ConverseOutcomes ==
  { [raises |-> Some(""), usage |-> None, content |-> <<>>, ms |-> 0],
    [raises |-> Some("ThrottlingException"), usage |-> None, content |-> <<>>, ms |-> 0],
    [raises |-> None, ms |-> 4,
     usage |-> Some([inputTokens |-> Some(3), outputTokens |-> Some(2),
                     thinkingTokens |-> None, reasoningTokens |-> None,
                     totalTokens |-> Some(5)]),
     content |-> << [text |-> Some(<<"hello">>), toolUse |-> None] >>],
    [raises |-> None, ms |-> 4,
     usage |-> Some([inputTokens |-> Some(3), outputTokens |-> Some(2),
                     thinkingTokens |-> Some(0), reasoningTokens |-> Some(4),
                     totalTokens |-> Some(9)]),
     content |-> << [text |-> None,
                     toolUse |-> Some([name |-> "json_output", input |-> Some([a |-> 1])])] >>] }

\* usage.get(name): None for a missing key and for a missing usage dict
usage_get_opt(usage, name) == IF usage = None THEN None ELSE usage[1][name]

\* a or b on two Optional integers
OrElse(a, b) == IF a = None \/ a = Some(0) THEN b ELSE a

RECURSIVE ConverseParts(_, _)
ConverseParts(content, acc) ==
  IF content = <<>> THEN Ret(acc)
  ELSE LET block == Head(content)
       IN IF block.text # None
          THEN ConverseParts(Tail(content), Append(acc, block.text[1]))
          ELSE IF block.toolUse # None /\ block.toolUse[1].name = "json_output"
          THEN IF block.toolUse[1].input = None THEN Raise("'input'")
               ELSE ConverseParts(Tail(content),
                                  Append(acc, json_dumps(block.toolUse[1].input[1])))
          ELSE ConverseParts(Tail(content), acc)

\* AWSBedrockProvider._run_amazon_converse: the try block and its handler.
\* The keyword arguments of the Result built in the try block, when the
\* parsing of the response reaches it.
ConverseSuccessKw(self, p, out) ==
  LET parts == ConverseParts(out.content, <<>>)
      input_tokens  == usage_get(out.usage, "inputTokens")
      output_tokens == usage_get(out.usage, "outputTokens")
  IN IF parts.exc # None THEN parts
     ELSE Ret([model |-> self.model_id, provider |-> "aws_bedrock", prompt |-> p,
               response |-> Some(join(parts.result[1])),
               input_tokens |-> input_tokens, output_tokens |-> output_tokens,
               thinking_tokens |-> OrElse(usage_get_opt(out.usage, "thinkingTokens"),
                                          usage_get_opt(out.usage, "reasoningTokens")),
               latency_ms |-> out.ms,
               raw_usage |-> [inputTokens |-> input_tokens,
                              outputTokens |-> output_tokens,
                              totalTokens |-> usage_get_opt(out.usage, "totalTokens")],
               response_format |-> self.config.response_format])

_run_amazon_converse(self, p, out) ==
  LET kw == ConverseSuccessKw(self, p, out)
      body ==
        IF out.raises # None THEN Raise(out.raises[1])
        ELSE IF kw.exc # None THEN kw
        ELSE LLMResponse(kw.result[1])
  IN IF body.exc = None THEN body
     ELSE LLMResponse(BedrockFailureKw(self, p, body.exc[1]))

\* The thinking or reasoning token counts the backend's response reports:
\* thoughts_token_count of Gemini, thinkingTokens and reasoningTokens of
\* Converse; the usage of the Anthropic Messages body has no such count.
Reported(self, out) ==
  IF out.raises # None \/ out.usage = None THEN {}
  ELSE IF self.provider = "google_cloud"
  THEN {out.usage[1].thoughts_token_count[i] :
          i \in DOMAIN out.usage[1].thoughts_token_count}
  ELSE IF _is_anthropic_model(self) THEN {}
  ELSE {out.usage[1].thinkingTokens[i] : i \in DOMAIN out.usage[1].thinkingTokens}
       \cup {out.usage[1].reasoningTokens[i] : i \in DOMAIN out.usage[1].reasoningTokens}

\* The keyword arguments of the LLMResponse call in the try block of run,
\* None when the backend call or the parsing raises before it.
TryKw(self, p, out) ==
  IF out.raises # None THEN None
  ELSE IF self.provider = "google_cloud" THEN Some(GoogleSuccessKw(self, p, out))
  ELSE IF _is_anthropic_model(self) THEN AnthropicSuccessKw(self, p, out).result
  ELSE ConverseSuccessKw(self, p, out).result

\* The thinking_tokens of these keyword arguments.
ThinkingGiven(self, p, out) ==
  IF TryKw(self, p, out) = None THEN None ELSE TryKw(self, p, out)[1].thinking_tokens

\* The responses the backend of a provider can give to one call.
Outcomes(self) ==
  IF self.provider = "google_cloud" THEN GoogleOutcomes
  ELSE IF _is_anthropic_model(self) THEN AnthropicOutcomes
  ELSE ConverseOutcomes

\* provider.run(prompt), as run_model calls it: the adapter's run method.
run_model(self, p, out) ==
  IF self.provider = "google_cloud" THEN GoogleRun(self, p, out)
  ELSE IF _is_anthropic_model(self) THEN _run_anthropic(self, p, out)
  ELSE IF _is_amazon_model(self) THEN _run_amazon_converse(self, p, out)
  ELSE _run_amazon_converse(self, p, out)


(***************************************************************************)
(* utils/logger.py                                                         *)
(***************************************************************************)
\* The lexical classes of the tokens of a text, as the scanner of the json
\* module tells them apart by their first characters.
WHITESPACE == {" ", "\n", "\t", "\r"}
StringTokens == {"\"a\"", "\"\""}
NumberTokens == {"1", "0", "-2.5"}
LiteralTokens == {"null", "true", "false"}
\* The constants the decoder accepts through parse_constant.
ConstantTokens == {"NaN", "Infinity", "-Infinity"}

\* WHITESPACE.match(s, idx).end(): the first index from idx on that holds no
\* white space.
RECURSIVE skip_ws(_, _)
skip_ws(s, idx) ==
  IF idx <= Len(s) /\ s[idx] \in WHITESPACE THEN skip_ws(s, idx + 1) ELSE idx

\* json.scanner.py_make_scanner and json.decoder.JSONObject / JSONArray: each
\* returns the index behind the value it has read, or 0 when it raises
\* (StopIteration or JSONDecodeError).
RECURSIVE scan_once(_, _), JSONObject(_, _), ObjectLoop(_, _), JSONArray(_, _),
          ArrayLoop(_, _)
scan_once(s, idx) ==
  IF idx > Len(s) THEN 0
  ELSE IF s[idx] \in StringTokens THEN idx + 1
  ELSE IF s[idx] = "{" THEN JSONObject(s, idx + 1)
  ELSE IF s[idx] = "[" THEN JSONArray(s, idx + 1)
  ELSE IF s[idx] \in LiteralTokens THEN idx + 1
  ELSE IF s[idx] \in NumberTokens THEN idx + 1
  ELSE IF s[idx] \in ConstantTokens THEN idx + 1
  ELSE 0

JSONObject(s, end) ==
  LET e == skip_ws(s, end)
  IN IF e > Len(s) THEN 0
     ELSE IF s[e] = "}" THEN e + 1
     ELSE IF s[e] \notin StringTokens THEN 0
     ELSE ObjectLoop(s, e)

\* One turn of the member loop, s[idx] being the key.
ObjectLoop(s, idx) ==
  LET colon == skip_ws(s, idx + 1)
  IN IF colon > Len(s) \/ s[colon] # ":" THEN 0
     ELSE LET value == scan_once(s, skip_ws(s, colon + 1))
              next  == skip_ws(s, value)
              key   == skip_ws(s, next + 1)
          IN IF value = 0 \/ next > Len(s) THEN 0
             ELSE IF s[next] = "}" THEN next + 1
             ELSE IF s[next] # "," THEN 0
             ELSE IF key > Len(s) \/ s[key] \notin StringTokens THEN 0
             ELSE ObjectLoop(s, key)

JSONArray(s, end) ==
  LET e == skip_ws(s, end)
  IN IF e <= Len(s) /\ s[e] = "]" THEN e + 1
     ELSE ArrayLoop(s, e)

\* One turn of the element loop, the element starting at idx.
ArrayLoop(s, idx) ==
  LET value == scan_once(s, idx)
      next  == skip_ws(s, value)
  IN IF value = 0 \/ next > Len(s) THEN 0
     ELSE IF s[next] = "]" THEN next + 1
     ELSE IF s[next] # "," THEN 0
     ELSE ArrayLoop(s, skip_ws(s, next + 1))

\* json.loads(s), that is JSONDecoder.decode: one value, white space around
\* it, and "Extra data" raised on anything behind it.
json_loads(s) ==
  LET end == scan_once(s, skip_ws(s, 1))
  IN IF end = 0 THEN Raise("Expecting value")
     ELSE IF skip_ws(s, end) # Len(s) + 1 THEN Raise("Extra data")
     ELSE Ret(TRUE)

_is_valid_json(text) ==
  IF ~TruthyText(text) THEN FALSE ELSE json_loads(text[1]).exc = None

\* _response_to_dict with a total that leaves the thinking tokens out.
_response_to_dict_no_thinking(resp, rid) ==
  [run_id     |-> rid,
   provider   |-> resp.provider,
   model      |-> resp.model,
   prompt     |-> resp.prompt,
   response   |-> resp.response,
   valid_json |-> _is_valid_json(resp.response),
   tokens     |-> [input    |-> resp.input_tokens,
                   output   |-> resp.output_tokens,
                   thinking |-> resp.thinking_tokens,
                   total    |-> resp.input_tokens + resp.output_tokens],
   latency_ms |-> resp.latency_ms,
   error      |-> resp.error,
   raw_usage  |-> resp.raw_usage]

_response_to_dict(resp, rid) ==
  [run_id     |-> rid,
   provider   |-> resp.provider,
   model      |-> resp.model,
   prompt     |-> resp.prompt,
   response   |-> resp.response,
   valid_json |-> _is_valid_json(resp.response),
   tokens     |-> [input    |-> resp.input_tokens,
                   output   |-> resp.output_tokens,
                   thinking |-> resp.thinking_tokens,
                   total    |-> (resp.input_tokens + resp.output_tokens)
                                + OrZero(resp.thinking_tokens)],
   latency_ms |-> resp.latency_ms,
   error      |-> resp.error,
   raw_usage  |-> resp.raw_usage]

\* The file save_log writes: its name and its content.  The timestamp,
\* which no step reads, is left out of the file and of its entries.
save_log(rs, rid) ==
  [name    |-> rid \o ".json",
   run_id  |-> rid,
   prompt  |-> IF rs # <<>> THEN rs[1].prompt ELSE "",
   results |-> [i \in 1..Len(rs) |-> _response_to_dict(rs[i], rid)]]

\* The table print_summary prints, one row per Result.
SummaryRows(rs) ==
  [i \in 1..Len(rs) |->
     [model    |-> rs[i].model,
      input    |-> rs[i].input_tokens,
      output   |-> rs[i].output_tokens,
      thinking |-> rs[i].thinking_tokens,
      ms       |-> rs[i].latency_ms,
      status   |-> IF Truthy(rs[i].error) THEN "ERROR" ELSE "OK"]]

\* print_summary: the table, then every Result's error or response text;
\* r.response.strip() raises AttributeError on a response that is None.
print_summary(rs) ==
  IF \E i \in 1..Len(rs) : ~Truthy(rs[i].error) /\ rs[i].response = None
  THEN Raise("'NoneType' object has no attribute 'strip'")
  ELSE Ret(SummaryRows(rs))

(***************************************************************************)
(* main.py                                                                 *)
(***************************************************************************)
\* build_provider that treats an unknown provider kind as aws_bedrock.
build_provider_lenient(key, model_cfg, env) ==
  LET self == [key |-> key, provider |-> model_cfg.provider,
               model_id |-> model_cfg.model_id, config |-> model_cfg.options]
  IN IF model_cfg.provider = "google_cloud"
     THEN IF env THEN Ret(self)
          ELSE Raise("Either GOOGLE_API_KEY or GOOGLE_CLOUD_PROJECT environment variable must be set")
     ELSE Ret(self)

build_provider(key, model_cfg, env) ==
  LET self == [key |-> key, provider |-> model_cfg.provider,
               model_id |-> model_cfg.model_id, config |-> model_cfg.options]
  IN IF model_cfg.provider = "google_cloud"
     THEN IF env THEN Ret(self)
          ELSE Raise("Either GOOGLE_API_KEY or GOOGLE_CLOUD_PROJECT environment variable must be set")
     ELSE IF model_cfg.provider = "aws_bedrock" THEN Ret(self)
     ELSE Raise("Unknown provider")

\* InsertByModel that puts x in front of the elements with an equal key.
RECURSIVE InsertBeforeEqual(_, _)
InsertBeforeEqual(x, s) ==
  IF s = <<>> THEN <<x>>
  ELSE IF ~StrLess(Head(s).model, x.model) THEN <<x>> \o s
  ELSE <<Head(s)>> \o InsertBeforeEqual(x, Tail(s))

\* responses.sort(key=lambda r: r.model): x goes behind every element whose
\* key is not greater than its own, so equal keys keep their order.
RECURSIVE InsertByModel(_, _)
InsertByModel(x, s) ==
  IF s = <<>> THEN <<x>>
  ELSE IF StrLess(x.model, Head(s).model) THEN <<x>> \o s
  ELSE <<Head(s)>> \o InsertByModel(x, Tail(s))

RECURSIVE SortFrom(_, _)
SortFrom(xs, acc) ==
  IF xs = <<>> THEN acc ELSE SortFrom(Tail(xs), InsertByModel(Head(xs), acc))

SortByModel(xs) == SortFrom(xs, <<>>)

\* any(r.error for r in responses)
AnyError(rs) == \E i \in 1..Len(rs) : Truthy(rs[i].error)

\* The sequences without repetition of at most n model keys: a dict of
\* selected entries in its iteration order.
Selections(n) ==
  UNION { { s \in [1..k -> ModelKeys] : \A i, j \in 1..k : i # j => s[i] # s[j] }
          : k \in 0..n }

\* A task holds its state, the number of calls of run_model made for it,
\* whether the backend raised (raised), the thinking token counts its
\* response reported (reported), the thinking_tokens run gave to the Result
\* it built in its try block (given), and the future of the call.
\* A task that has not ended has neither a result nor an exception.
NoFuture == [exc |-> None, result |-> None]

N == Len(providers)

\* The state once the arguments are parsed, the prompt is read and the
\* models are selected from the registry (main.py 126-171); the returns on a
\* missing config file and on an unknown --models key come before it.
Init ==
  /\ pc = "select"
  /\ selected \in Selections(MaxAdapters)
  /\ use_parallel \in BOOLEAN
  /\ quiet \in BOOLEAN
  /\ google_env \in BOOLEAN
  /\ prompt \in Prompts
  /\ providers = <<>>
  /\ run_id = None
  /\ tasks = <<>>
  /\ responses = <<>>
  /\ summary = None
  /\ log = None
  /\ exit_code = None

\* main.py 173-175: nothing selected ends the run.
SelectModels ==
  /\ pc = "select"
  /\ IF selected = <<>>
     THEN pc' = "done" /\ exit_code' = Some(1)
     ELSE pc' = "build" /\ UNCHANGED exit_code
  /\ UNCHANGED <<selected, use_parallel, quiet, google_env, prompt, providers,
                 run_id, tasks, responses, summary, log>>

\* One iteration of the loop that builds the providers.
BuildProvider ==
  /\ pc = "build"
  /\ LET key == selected[Len(providers) + 1]
         r   == build_provider(key, models_cfg[key], google_env)
     IN IF r.exc # None
        THEN /\ pc' = "done"
             /\ exit_code' = Some(1)
             /\ UNCHANGED providers
        ELSE /\ providers' = Append(providers, r.result[1])
             /\ pc' = IF Len(providers) + 1 = Len(selected) THEN "execute" ELSE "build"
             /\ UNCHANGED exit_code
  /\ UNCHANGED <<selected, use_parallel, quiet, google_env, prompt,
                 run_id, tasks, responses, summary, log>>

\* main.py 190-194: the run id is drawn and the response list is empty.
StartRun ==
  /\ pc = "execute"
  /\ \E rid \in RunIds : run_id' = Some(rid)
  /\ tasks' = [i \in 1..N |-> [st |-> "idle", calls |-> 0, raised |-> FALSE,
                               reported |-> {}, given |-> None,
                               fut |-> NoFuture]]
  /\ responses' = <<>>
  /\ pc' = "dispatch"
  /\ UNCHANGED <<selected, use_parallel, quiet, google_env, prompt, providers,
                 summary, log, exit_code>>


\* main.py 197-201: the executor gets one task per provider.
Submit ==
  /\ pc = "dispatch"
  /\ use_parallel
  /\ tasks' = [i \in 1..N |-> [tasks[i] EXCEPT !.st = "submitted"]]
  /\ pc' = "collect"
  /\ UNCHANGED <<selected, use_parallel, quiet, google_env, prompt, providers,
                 run_id, responses, summary, log, exit_code>>

\* A worker thread of the executor takes task i and enters run_model.
WorkerStart(i) ==
  /\ tasks[i].st = "submitted"
  /\ tasks' = [tasks EXCEPT ![i].st = "running", ![i].calls = @ + 1]
  /\ UNCHANGED <<pc, selected, use_parallel, quiet, google_env, prompt, providers,
                 run_id, responses, summary, log, exit_code>>

\* run_model returns or raises in the worker: the future of task i is set.
WorkerFinish(i) ==
  /\ use_parallel
  /\ tasks[i].st = "running"
  /\ \E out \in Outcomes(providers[i]) :
       tasks' = [tasks EXCEPT ![i].st = "returned",
                              ![i].raised = (out.raises # None),
                              ![i].reported = Reported(providers[i], out),
                              ![i].given = ThinkingGiven(providers[i], prompt, out),
                              ![i].fut = run_model(providers[i], prompt, out)]
  /\ UNCHANGED <<pc, selected, use_parallel, quiet, google_env, prompt, providers,
                 run_id, responses, summary, log, exit_code>>

\* DispatchComplete that ends the collection at the first Result.
DispatchCompleteEarly(n) == n >= 1

\* The loop over the futures, or over the providers, is exhausted: n Results
\* are collected, one per provider.
DispatchComplete(n) == n = N

\* main.py 202-203: as_completed yields a finished future and its result is
\* appended; future.result() raises what run_model raised, and the with
\* block is left.
Collect(i) ==
  /\ pc = "collect"
  /\ tasks[i].st = "returned"
  /\ tasks' = [tasks EXCEPT ![i].st = "collected"]
  /\ IF tasks[i].fut.exc # None
     THEN /\ pc' = "join"
          /\ UNCHANGED responses
     ELSE /\ responses' = Append(responses, tasks[i].fut.result[1])
          /\ pc' = IF DispatchComplete(Len(responses) + 1) THEN "aggregate" ELSE "collect"
  /\ UNCHANGED <<selected, use_parallel, quiet, google_env, prompt, providers,
                 run_id, summary, log, exit_code>>

\* Leaving the with block joins the executor (shutdown(wait=True)); then the
\* exception leaves main and the interpreter exits with status 1.
JoinRaise ==
  /\ pc = "join"
  /\ \A i \in 1..N : tasks[i].st \in {"returned", "collected"}
  /\ pc' = "done"
  /\ exit_code' = Some(1)
  /\ UNCHANGED <<selected, use_parallel, quiet, google_env, prompt, providers,
                 run_id, tasks, responses, summary, log>>

\* SeqMayStart without the wait for the previous call.
SeqMayStartAny(i) == tasks[i].st = "idle"

\* main.py 205-206: the loop calls run_model for the next provider.
SeqMayStart(i) == tasks[i].st = "idle" /\ i = Len(responses) + 1

SeqStart(i) ==
  /\ pc = "dispatch"
  /\ ~use_parallel
  /\ SeqMayStart(i)
  /\ tasks' = [tasks EXCEPT ![i].st = "running", ![i].calls = @ + 1]
  /\ UNCHANGED <<pc, selected, use_parallel, quiet, google_env, prompt, providers,
                 run_id, responses, summary, log, exit_code>>

\* main.py 206: run_model returns and its Result is appended, or it raises
\* and the exception leaves main.
SeqReturn(i) ==
  /\ pc = "dispatch"
  /\ ~use_parallel
  /\ tasks[i].st = "running"
  /\ \E out \in Outcomes(providers[i]) :
       LET r == run_model(providers[i], prompt, out)
       IN /\ tasks' = [tasks EXCEPT ![i].st = IF r.exc = None THEN "collected" ELSE "returned",
                                    ![i].raised = (out.raises # None),
                              ![i].reported = Reported(providers[i], out),
                              ![i].given = ThinkingGiven(providers[i], prompt, out),
                                    ![i].fut = r]
          /\ IF r.exc # None
             THEN /\ pc' = "done"
                  /\ exit_code' = Some(1)
                  /\ UNCHANGED responses
             ELSE /\ responses' = Append(responses, r.result[1])
                  /\ pc' = IF DispatchComplete(Len(responses) + 1) THEN "aggregate" ELSE "dispatch"
                  /\ UNCHANGED exit_code
  /\ UNCHANGED <<selected, use_parallel, quiet, google_env, prompt, providers,
                 run_id, summary, log>>

\* main.py 208-220: sort, print the summary unless quiet, save the log and
\* return the exit code.  An exception of print_summary leaves main before
\* save_log is called.
ExitCode(rs) == IF AnyError(rs) THEN 1 ELSE 0

Aggregate ==
  /\ pc = "aggregate"
  /\ LET sorted  == SortByModel(responses)
         printed == IF quiet THEN Ret(<<>>) ELSE print_summary(sorted)
     IN /\ responses' = sorted
        /\ summary' = IF quiet THEN None ELSE Some(SummaryRows(sorted))
        /\ IF printed.exc # None
           THEN /\ exit_code' = Some(1)
                /\ UNCHANGED log
           ELSE /\ log' = Some(save_log(sorted, run_id[1]))
                /\ exit_code' = Some(ExitCode(sorted))
  /\ pc' = "done"
  /\ UNCHANGED <<selected, use_parallel, quiet, google_env, prompt, providers,
                 run_id, tasks>>

Next ==
  \/ SelectModels
  \/ BuildProvider
  \/ StartRun
  \/ Submit
  \/ \E i \in DOMAIN tasks : WorkerStart(i)
  \/ \E i \in DOMAIN tasks : WorkerFinish(i)
  \/ \E i \in DOMAIN tasks : Collect(i)
  \/ JoinRaise
  \/ \E i \in DOMAIN tasks : SeqStart(i)
  \/ \E i \in DOMAIN tasks : SeqReturn(i)
  \/ Aggregate

Spec == Init /\ [][Next]_vars


(***************************************************************************)
(* Properties.                                                             *)
(***************************************************************************)
Finished(i) == tasks[i].st \in {"returned", "collected"}

\* The dispatch step has ended, by completing or by an exception.
DispatchEnded == run_id # None /\ pc \in {"aggregate", "done"}

NonEmpty(text) == text # None /\ text # Some(<<>>)

\* C1: when the dispatch step has ended, in either mode, the number of
\* Results collected equals the number of adapters, however many calls failed.
C1_DispatchCount == DispatchEnded => Len(responses) = N

\* C2: the run of an adapter never raises: a call that has ended has
\* returned a Result, and when the backend call failed that Result has error
\* set, an empty response, zero token counts, no thinking tokens and zero
\* latency.
C2_NoPropagation ==
  \A i \in DOMAIN tasks :
    Finished(i) =>
      /\ tasks[i].fut.exc = None
      /\ tasks[i].fut.result # None
      /\ tasks[i].raised =>
           LET r == tasks[i].fut.result[1]
           IN /\ r.error # None
              /\ r.response = Some(<<>>)
              /\ r.input_tokens = 0
              /\ r.output_tokens = 0
              /\ r.thinking_tokens = None
              /\ r.latency_ms = 0

\* C3: no Result an adapter has returned has both a non-empty response text
\* and a non-null error.
C3_Exclusive ==
  \A i \in DOMAIN tasks :
    tasks[i].fut.result # None =>
      ~(NonEmpty(tasks[i].fut.result[1].response) /\ tasks[i].fut.result[1].error # None)

C3_Witness ==
  /\ \E i \in DOMAIN tasks :
       tasks[i].fut.result # None /\ tasks[i].fut.result[1].error # None
  /\ \E i \in DOMAIN tasks :
       tasks[i].fut.result # None /\ NonEmpty(tasks[i].fut.result[1].response)

\* C4: in sequential mode at most one adapter call is running, and a call
\* has started only when the calls of all adapters before it in the
\* iteration order have returned.
C4_Sequential ==
  ~use_parallel =>
    /\ Cardinality({i \in DOMAIN tasks : tasks[i].st = "running"}) <= 1
    /\ \A i \in DOMAIN tasks :
         tasks[i].st # "idle" => \A j \in 1..(i - 1) : Finished(j)

C4_Witness ==
  /\ ~use_parallel
  /\ N = 3
  /\ tasks # <<>>
  /\ tasks[3].st = "running"


\* The Results of the adapters in the iteration order of the providers: the
\* list the dispatch collects when the calls complete in that order.
InProviderOrder == [i \in 1..N |-> tasks[i].fut.result[1]]

\* C5: in parallel mode the order of the Results after the sort, in the
\* summary and in the log, does not depend on the completion order of the
\* tasks: it is the order the sort gives to the Results taken in the
\* iteration order of the providers.
C5_Deterministic ==
  (pc = "done" /\ use_parallel /\ log # None) =>
    /\ responses = SortByModel(InProviderOrder)
    /\ log[1].results =
         [i \in 1..N |-> _response_to_dict(SortByModel(InProviderOrder)[i], run_id[1])]
    /\ summary # None => summary[1] = SummaryRows(SortByModel(InProviderOrder))

\* ys is xs in ascending order of the model identifier, the elements with
\* an equal identifier in the order they have in xs.
IsStableSortOf(xs, ys) ==
  /\ Len(ys) = Len(xs)
  /\ \A i, j \in 1..Len(ys) : i < j => ~StrLess(ys[j].model, ys[i].model)
  /\ \E p \in [1..Len(xs) -> 1..Len(xs)] :
       /\ \A i, j \in 1..Len(xs) : i # j => p[i] # p[j]
       /\ \A i \in 1..Len(xs) : ys[i] = xs[p[i]]
       /\ \A i, j \in 1..Len(xs) :
            (i < j /\ ys[i].model = ys[j].model) => p[i] < p[j]

\* C6: the sort step leaves the Results in ascending order of the model
\* identifier, the Results with an equal identifier in their order before
\* the sort, and sorting the sorted list again does not change it.
C6_SortStable ==
  [][pc = "aggregate" =>
       /\ IsStableSortOf(responses, responses')
       /\ SortByModel(responses') = responses']_vars

\* A sequential run whose three Results were collected out of order, two of
\* them different Results of the same model, and are now sorted.
C6_Witness ==
  /\ pc = "done"
  /\ ~use_parallel
  /\ Len(responses) = 3
  /\ responses # InProviderOrder
  /\ \E i, j \in 1..3 :
       /\ i < j
       /\ responses[i].model = responses[j].model
       /\ responses[i] # responses[j]
       /\ InProviderOrder[1].model = responses[i].model
       /\ InProviderOrder[1] # InProviderOrder[3]
       /\ InProviderOrder[3].model = responses[i].model

\* C7: when the run has ended and exactly one adapter's backend call raised,
\* there are N Results, exactly one of them with error set and that one
\* with an empty response, and the log file <run_id>.json holds N entries.
C7_PartialFailure ==
  (DispatchEnded /\ pc = "done"
     /\ Cardinality({i \in DOMAIN tasks : tasks[i].raised}) = 1) =>
    /\ Len(responses) = N
    /\ Cardinality({i \in 1..Len(responses) : responses[i].error # None}) = 1
    /\ \A i \in 1..Len(responses) :
         responses[i].error # None => responses[i].response = Some(<<>>)
    /\ log # None
    /\ log[1].name = run_id[1] \o ".json"
    /\ Len(log[1].results) = N

\* C8: when the run has ended and a collected Result has a non-null error,
\* the exit code is not zero.
C8_ExitCode ==
  (pc = "done" /\ \E i \in 1..Len(responses) : responses[i].error # None) =>
    (exit_code # None /\ exit_code # Some(0))

\* The construction of the adapter of key k raises: its provider kind is
\* unknown, or it is a Google adapter and no credential is set.
ConstructionFails(k) ==
  \/ models_cfg[k].provider \notin {"google_cloud", "aws_bedrock"}
  \/ models_cfg[k].provider = "google_cloud" /\ ~google_env

\* C9: when the construction of a selected adapter raises, no adapter is
\* ever invoked, no log file is written and the run ends with exit code 1.
C9_PreFlight ==
  (\E i \in 1..Len(selected) : ConstructionFails(selected[i])) =>
    /\ run_id = None
    /\ \A i \in DOMAIN tasks : tasks[i].calls = 0 /\ tasks[i].st = "idle"
    /\ responses = <<>>
    /\ log = None
    /\ pc \in {"select", "build", "done"}
    /\ pc = "done" => exit_code = Some(1)

\* The run has ended on the third adapter's construction, after two
\* adapters were constructed.
C9_Witness ==
  /\ pc = "done"
  /\ exit_code = Some(1)
  /\ Len(selected) = 3
  /\ Len(providers) = 2
  /\ ConstructionFails(selected[3])

\* C10: in every entry of the log, tokens.total is the sum of the Result's
\* input, output and thinking tokens, the thinking tokens counting as zero
\* when they are absent.
C10_TokensTotal ==
  log # None =>
    \A i \in 1..Len(log[1].results) :
      log[1].results[i].tokens.total =
        responses[i].input_tokens + responses[i].output_tokens
        + (IF responses[i].thinking_tokens = None THEN 0
           ELSE responses[i].thinking_tokens[1])

\* A log with an entry whose thinking tokens are present and not zero and an
\* entry whose thinking tokens are absent.
C10_Witness ==
  /\ log # None
  /\ \E i \in 1..Len(log[1].results) :
       log[1].results[i].tokens.thinking # None
       /\ log[1].results[i].tokens.thinking[1] > 0
       /\ log[1].results[i].tokens.input > 0
  /\ \E i \in 1..Len(log[1].results) :
       log[1].results[i].tokens.thinking = None
       /\ log[1].results[i].tokens.input > 0


(***************************************************************************)
(* The valid_json flag, checked on the texts of at most MaxJsonLen tokens. *)
(***************************************************************************)
MaxJsonLen == 5

JsonTokens == {"{", "}", "[", "]", ":", ",", "\"a\"", "1", "NaN", "a"}

\* The state after the sequential dispatch of the one Google adapter flash,
\* whose backend has returned no text or a text of at most MaxJsonLen tokens,
\* the empty text among them.
InitJson ==
  /\ pc = "aggregate"
  /\ selected = <<"flash">>
  /\ use_parallel = FALSE
  /\ quiet \in BOOLEAN
  /\ google_env = TRUE
  /\ prompt \in Prompts
  /\ providers = <<build_provider("flash", models_cfg["flash"], TRUE).result[1]>>
  /\ run_id \in {Some(rid) : rid \in RunIds}
  /\ \E k \in 0..MaxJsonLen : \E t \in [1..k -> JsonTokens] :
     \E text \in (IF k = 0 THEN {None, Some(t)} ELSE {Some(t)}) :
       LET out == [raises |-> None, text |-> text, usage |-> None, ms |-> 5]
           r   == run_model(providers[1], prompt, out)
       IN /\ tasks = <<[st |-> "collected", calls |-> 1, raised |-> FALSE,
                      reported |-> Reported(providers[1], out),
                      given |-> ThinkingGiven(providers[1], prompt, out), fut |-> r]>>
          /\ responses = <<r.result[1]>>
  /\ summary = None
  /\ log = None
  /\ exit_code = None

NextJson == Aggregate

SpecJson == InitJson /\ [][NextJson]_vars

\* RFC 8259, on the tokens of a text: ws value ws, a value being a string, a
\* number, a literal, an array of values or an object of string : value
\* members, both separated by commas.
RECURSIVE StripLeft(_)
StripLeft(t) == IF t # <<>> /\ Head(t) \in WHITESPACE THEN StripLeft(Tail(t)) ELSE t

RECURSIVE StripRight(_)
StripRight(t) ==
  IF t # <<>> /\ t[Len(t)] \in WHITESPACE THEN StripRight(SubSeq(t, 1, Len(t) - 1)) ELSE t

Strip(t) == StripRight(StripLeft(t))

RECURSIVE IsJsonValue(_), IsJsonElements(_), IsJsonMembers(_)
IsJsonValue(t) ==
  LET u     == Strip(t)
      inner == SubSeq(u, 2, Len(u) - 1)
  IN \/ Len(u) = 1 /\ u[1] \in StringTokens \cup NumberTokens \cup LiteralTokens
     \/ /\ Len(u) >= 2
        /\ u[1] = "[" /\ u[Len(u)] = "]"
        /\ (Strip(inner) = <<>> \/ IsJsonElements(inner))
     \/ /\ Len(u) >= 2
        /\ u[1] = "{" /\ u[Len(u)] = "}"
        /\ (Strip(inner) = <<>> \/ IsJsonMembers(inner))

IsJsonElements(t) ==
  \/ IsJsonValue(t)
  \/ \E k \in 1..Len(t) :
       /\ t[k] = ","
       /\ IsJsonValue(SubSeq(t, 1, k - 1))
       /\ IsJsonElements(SubSeq(t, k + 1, Len(t)))

IsJsonMember(t) ==
  \E k \in 1..Len(t) :
    /\ t[k] = ":"
    /\ Len(Strip(SubSeq(t, 1, k - 1))) = 1
    /\ Strip(SubSeq(t, 1, k - 1))[1] \in StringTokens
    /\ IsJsonValue(SubSeq(t, k + 1, Len(t)))

IsJsonMembers(t) ==
  \/ IsJsonMember(t)
  \/ \E k \in 1..Len(t) :
       /\ t[k] = ","
       /\ IsJsonMember(SubSeq(t, 1, k - 1))
       /\ IsJsonMembers(SubSeq(t, k + 1, Len(t)))

\* C11: the valid_json flag of a log entry is true exactly when the Result's
\* response text is present, is not empty and is well-formed JSON (RFC 8259).
C11_ValidJson ==
  log # None =>
    \A i \in 1..Len(log[1].results) :
      log[1].results[i].valid_json =
        (NonEmpty(responses[i].response) /\ IsJsonValue(responses[i].response[1]))


\* C12: in both modes, once the aggregation (sort, summary, log) is due or
\* has been done, every task has ended: none is waiting to run or running.
C12_Barrier ==
  (pc = "aggregate" \/ summary # None \/ log # None) =>
    \A i \in DOMAIN tasks : Finished(i)

\* A parallel run of three adapters is about to sort.
C12_Witness ==
  /\ pc = "aggregate"
  /\ use_parallel
  /\ N = 3
  /\ \A i \in DOMAIN tasks : Finished(i)


\* C13: no adapter is invoked more than once, and when a run that reached
\* the dispatch has ended, in either mode, every adapter has been invoked
\* exactly once, whether its call succeeded or failed.
C13_ExactlyOnce ==
  /\ \A i \in DOMAIN tasks : tasks[i].calls <= 1
  /\ (pc = "done" /\ run_id # None) => \A i \in DOMAIN tasks : tasks[i].calls = 1


\* C14: the thinking_tokens an adapter gives to a Result are present only
\* when the backend's response reported a thinking or reasoning token count,
\* and then are a reported count; on a failure they are absent.
C14_ThinkingReported ==
  \A i \in DOMAIN tasks :
    Finished(i) =>
      /\ tasks[i].given # None => tasks[i].given[1] \in tasks[i].reported
      /\ tasks[i].fut.result # None =>
           LET r == tasks[i].fut.result[1]
           IN /\ r.thinking_tokens # None => r.thinking_tokens[1] \in tasks[i].reported
              /\ r.error # None => r.thinking_tokens = None

====
